---- MODULE Spec2Model ----
(***************************************************************************)
(* Model of the loyalty-bonus report scripts src/report.py (the variant    *)
(* with row filtering) and src/old/report_final.py (the older variant,     *)
(* without filtering, whose aggregator appends a grand-total row).         *)
(*                                                                         *)
(* A pandas DataFrame is a sequence of rows (records); a column is the     *)
(* sequence of one field.  Amounts are integers (the scripts use floats;   *)
(* rounding is not modelled) and a quotient is an exact reduced fraction.  *)
(***************************************************************************)
EXTENDS Integers, Sequences, FiniteSets, TLC

VARIABLES pc, config, df, filt, filt2, clean, report, report_old,
          columns, files, file_idx, all_data, sheet_name, sheet_name_old, fs

\* the loader's loop over the source files
loadvars == <<files, file_idx, all_data>>

\* what main produces after the report: the sheet names and the files on disk
outvars == <<sheet_name, sheet_name_old, fs>>

vars == <<pc, config, df, filt, filt2, clean, report, report_old,
          columns, loadvars, outvars>>

(***************************************************************************)
(* Bounds of the model.                                                    *)
(***************************************************************************)
MaxRows == 2

(***************************************************************************)
(* Cells.  A cell read from a sheet is a number, a string that spells a    *)
(* number, any other string, or empty (NaN).                               *)
(***************************************************************************)
Num(v) == [k |-> "num", v |-> v]
NumStr(v) == [k |-> "numstr", v |-> v]
Text == [k |-> "text", v |-> 0]
NaN == [k |-> "nan", v |-> 0]

IsStr(c) == c.k \in {"numstr", "text"}

\* pd.to_numeric(col, errors="coerce"), one cell
to_numeric(c) == IF c.k \in {"num", "numstr"} THEN Num(c.v) ELSE NaN

\* Series.fillna(0), one cell
fillna(c) == IF c.k = "nan" THEN Num(0) ELSE c

\* Series.isin(values), one cell: NaN and strings match no number
isin(c, values) == c.k = "num" /\ c.v \in values

\* A date cell: a timestamp (year, month, day), a string of three numbers
\* "a.b.c" (kept in d as the digits aabbcccc), or a string that is no date.
Ts(y, m, d) == [k |-> "ts", y |-> y, m |-> m, d |-> d]
NaT == [k |-> "nat", y |-> 0, m |-> 0, d |-> 0]
DateText == [k |-> "text", y |-> 0, m |-> 0, d |-> 0]
DateStr(a, b, c) == [k |-> "str", y |-> 0, m |-> 0, d |-> (a * 100 + b) * 10000 + c]

\* pd.to_datetime(col, dayfirst=True, errors="coerce"), one cell: a timestamp
\* stays; a string "a.b.c" is read day first (day a, month b, year c) and is
\* NaT when that is no date; any other cell is NaT
to_datetime(c) ==
  CASE c.k = "ts" -> c
    [] c.k = "str" ->
         LET day == c.d \div 1000000
             month == (c.d \div 10000) % 100
             year == c.d % 10000
         IN IF month \in 1..12 /\ day \in 1..31 THEN Ts(year, month, day) ELSE NaT
    [] OTHER -> NaT

\* Series.dt.to_period("M").dt.to_timestamp(): first day of the month
to_period_M(c) == Ts(c.y, c.m, 1)

\* chronological key of a timestamp's month
MonthKey(c) == c.y * 12 + c.m

(***************************************************************************)
(* Arithmetic helpers.                                                     *)
(***************************************************************************)
Abs(n) == IF n < 0 THEN -n ELSE n

RECURSIVE GCD(_, _)
GCD(a, b) == IF b = 0 THEN a ELSE GCD(b, a % b)

\* The float a / b as an exact fraction in lowest terms, denominator > 0.
\* A zero denominator (numpy yields inf or nan, no exception) is kept as d = 0.
Div(a, b) ==
  IF b = 0 THEN [n |-> a, d |-> 0]
  ELSE LET g == GCD(Abs(a), Abs(b))
           s == IF b < 0 THEN -1 ELSE 1
       IN [n |-> s * (a \div g), d |-> s * (b \div g)]

Zero == [n |-> 0, d |-> 1]

(***************************************************************************)
(* Text helpers.  A reason is a sequence of one-character strings.         *)
(***************************************************************************)
RECURSIVE lstrip(_)
lstrip(s) == IF s # <<>> /\ Head(s) = " " THEN lstrip(Tail(s)) ELSE s

RECURSIVE rstrip(_)
rstrip(s) ==
  IF s # <<>> /\ s[Len(s)] = " " THEN rstrip(SubSeq(s, 1, Len(s) - 1)) ELSE s

\* str.strip()
strip(s) == rstrip(lstrip(s))

(***************************************************************************)
(* apply_filters(df, config): src/report.py                                *)
(* The result is [status, df, stats]; status "raise" is an exception        *)
(* leaving the function.  Every loaded table has the columns fuel_mark and  *)
(* azs_number (load_excel_file reads them with usecols).                    *)
(***************************************************************************)
\* the per-code diagnostic sums of bonus_plus and liters over the rows about
\* to be excluded: a string cell among them makes sum() or the ":,.2f"
\* format raise
DiagnosticRaises(rows) ==
  \E i \in 1..Len(rows) : IsStr(rows[i].bonus_plus) \/ IsStr(rows[i].liters)

\* a rule that tests the cells as read, without coercing the column
ExcludeBy_Uncoerced(rows, col, exclude) ==
  IF exclude # {}
  THEN LET mask(r) == isin(r[col], exclude)
           not_mask(r) == ~mask(r)
       IN [rows |-> SelectSeq(rows, not_mask), hit |-> SelectSeq(rows, mask)]
  ELSE [rows |-> rows, hit |-> <<>>]

\* a rule whose test of the list is inverted: it runs for an empty list only
ExcludeBy_EmptyListRuns(rows, col, exclude) ==
  IF exclude = {}
  THEN LET coerced == [i \in 1..Len(rows) |->
                         [rows[i] EXCEPT ![col] = to_numeric(@)]]
           mask(r) == isin(r[col], exclude)
           not_mask(r) == ~mask(r)
       IN [rows |-> SelectSeq(coerced, not_mask),
           hit |-> SelectSeq(coerced, mask)]
  ELSE [rows |-> rows, hit |-> <<>>]

\* a rule that counts the rows in the list and leaves them in the table
ExcludeBy_CountOnly(rows, col, exclude) ==
  IF exclude # {}
  THEN LET coerced == [i \in 1..Len(rows) |->
                         [rows[i] EXCEPT ![col] = to_numeric(@)]]
           mask(r) == isin(r[col], exclude)
       IN [rows |-> coerced, hit |-> SelectSeq(coerced, mask)]
  ELSE [rows |-> rows, hit |-> <<>>]

\* one exclusion rule on one column: nothing happens for an empty list;
\* otherwise the column is coerced to numbers and the rows whose cell is in
\* the list are taken out.  [rows: what remains, hit: the rows taken out]
ExcludeBy(rows, col, exclude) ==
  IF exclude # {}
  THEN LET coerced == [i \in 1..Len(rows) |->
                         [rows[i] EXCEPT ![col] = to_numeric(@)]]
           mask(r) == isin(r[col], exclude)
           not_mask(r) == ~mask(r)
       IN [rows |-> SelectSeq(coerced, not_mask),
           hit |-> SelectSeq(coerced, mask)]
  ELSE [rows |-> rows, hit |-> <<>>]

\* a filter whose site rule counts its rows in the whole table, not in the
\* rows the fuel-mark rule left
apply_filters_IndependentRules(d, cfg) ==
  IF ~cfg.ENABLE_FILTERING
  THEN [status |-> "ok", df |-> d,
        stats |-> [filtered_rows |-> 0, filtered_fuel |-> 0, filtered_azs |-> 0]]
  ELSE
    LET initial_count == Len(d)
        fuel == ExcludeBy(d, "fuel_mark", cfg.EXCLUDE_FUEL_MARKS)
        azs == ExcludeBy(d, "azs_number", cfg.EXCLUDE_AZS)
        df_filtered == ExcludeBy(fuel.rows, "azs_number", cfg.EXCLUDE_AZS).rows
        raises == \/ DiagnosticRaises(fuel.hit)
                  \/ DiagnosticRaises(azs.hit)
                  \/ initial_count = 0
    IN IF raises
       THEN [status |-> "raise", df |-> <<>>, stats |-> [filtered_rows |-> 0]]
       ELSE [status |-> "ok", df |-> df_filtered,
             stats |-> [filtered_rows |-> initial_count - Len(df_filtered),
                        filtered_fuel |-> Len(fuel.hit),
                        filtered_azs |-> Len(azs.hit),
                        initial_count |-> initial_count]]

apply_filters(d, cfg) ==
  IF ~cfg.ENABLE_FILTERING
  THEN [status |-> "ok", df |-> d,
        stats |-> [filtered_rows |-> 0, filtered_fuel |-> 0, filtered_azs |-> 0]]
  ELSE
    LET initial_count == Len(d)
        fuel == ExcludeBy(d, "fuel_mark", cfg.EXCLUDE_FUEL_MARKS)
        azs == ExcludeBy(fuel.rows, "azs_number", cfg.EXCLUDE_AZS)
        df_filtered == azs.rows
        raises == \/ DiagnosticRaises(fuel.hit)
                  \/ DiagnosticRaises(azs.hit)
                  \/ initial_count = 0   \* filtered_rows/initial_count*100
    IN IF raises
       THEN [status |-> "raise", df |-> <<>>, stats |-> [filtered_rows |-> 0]]
       ELSE [status |-> "ok", df |-> df_filtered,
             stats |-> [filtered_rows |-> initial_count - Len(df_filtered),
                        filtered_fuel |-> Len(fuel.hit),
                        filtered_azs |-> Len(azs.hit),
                        initial_count |-> initial_count]]

\* the canonical column names of a loaded table: the values of COLS_MAPPING
AllColumns ==
  {"date", "bonus_plus", "bonus_minus", "liters", "reason", "azs_number",
   "fuel_mark"}

\* apply_filters on a table that has the columns cols: a rule whose column is
\* absent is skipped ('and "fuel_mark" in df_filtered.columns'); the
\* diagnostic sums of a rule that excludes a row read bonus_plus and liters
\* and raise KeyError when one of them is absent
apply_filters_columns(d, cols, cfg) ==
  LET present ==
        [cfg EXCEPT
           !.EXCLUDE_FUEL_MARKS = IF "fuel_mark" \in cols THEN @ ELSE {},
           !.EXCLUDE_AZS = IF "azs_number" \in cols THEN @ ELSE {}]
      r == apply_filters(d, present)
  IN IF /\ r.status = "ok"
        /\ r.stats.filtered_fuel + r.stats.filtered_azs > 0
        /\ ~({"bonus_plus", "liters"} \subseteq cols)
     THEN [status |-> "raise", df |-> <<>>, stats |-> [filtered_rows |-> 0]]
     ELSE r

(***************************************************************************)
(* validate_and_clean_data(df): src/report.py, src/old/report_final.py     *)
(***************************************************************************)
required_cols == {"date", "bonus_plus", "bonus_minus", "liters", "reason"}

\* a check that never finds a column missing
missing_cols_None(cols) == {}

missing_cols(cols) == {col \in required_cols : col \notin cols}

validate_and_clean_data(d) ==
  LET parsed == [i \in 1..Len(d) |-> [d[i] EXCEPT !.date = to_datetime(@)]]
      isna(r) == r.date.k = "nat"
      notna(r) == ~isna(r)
      missing_dates == Len(SelectSeq(parsed, isna))
      kept == SelectSeq(parsed, notna)
      cleaned == [i \in 1..Len(kept) |->
                    [date |-> kept[i].date,
                     bonus_plus |-> fillna(to_numeric(kept[i].bonus_plus)),
                     bonus_minus |-> fillna(to_numeric(kept[i].bonus_minus)),
                     liters |-> fillna(to_numeric(kept[i].liters)),
                     reason |-> strip(kept[i].reason),
                     fuel_mark |-> kept[i].fuel_mark,
                     azs_number |-> kept[i].azs_number,
                     period |-> to_period_M(kept[i].date)]]
  IN IF Len(kept) = 0
     THEN \* df['date'].min() is NaT and NaT.strftime raises
          [status |-> "raise", df |-> <<>>, missing_dates |-> missing_dates]
     ELSE [status |-> "ok", df |-> cleaned, missing_dates |-> missing_dates]

\* validate_and_clean_data on a table that has the columns cols: None
\* ("missing") when a required column is absent, before any cell is read
validate_and_clean_columns(d, cols) ==
  IF missing_cols(cols) # {}
  THEN [status |-> "missing", df |-> <<>>, missing_dates |-> 0]
  ELSE validate_and_clean_data(d)

(***************************************************************************)
(* calculate_report(df): the aggregator.                                   *)
(* A grouped Series is a function from its index (the periods of the rows  *)
(* grouped) to the sums; a report under construction is indexed by the     *)
(* periods of positive_bonus, in ascending order (groupby sorts its keys). *)
(***************************************************************************)
MonthName ==
  <<"January", "February", "March", "April", "May", "June", "July",
    "August", "September", "October", "November", "December">>

\* DatetimeIndex.strftime("%B %Y"), one entry
strftime_BY(p) == [k |-> "str", month |-> MonthName[p.m], year |-> p.y]

\* the label of the grand-total row (the Cyrillic word for TOTAL in the source)
TotalLabel == [k |-> "str", month |-> "ITOGO", year |-> 0]

\* a cell of a label column the row has no value for
NaNLabel == [k |-> "nan", month |-> "", year |-> 0]

Periods(rows) == {rows[i].period : i \in 1..Len(rows)}

\* a sum that ignores the grouping key
GroupSum_Ungrouped(rows, col) ==
  [p \in Periods(rows) |->
     LET RECURSIVE S(_)
         S(rs) == IF rs = <<>> THEN 0 ELSE Head(rs)[col].v + S(Tail(rs))
     IN S(rows)]

\* rows.groupby("period")[col].sum()
GroupSum(rows, col) ==
  [p \in Periods(rows) |->
     LET in_p(r) == r.period = p
         RECURSIVE S(_)
         S(rs) == IF rs = <<>> THEN 0 ELSE Head(rs)[col].v + S(Tail(rs))
     IN S(SelectSeq(rows, in_p))]

\* keys in descending order
RECURSIVE SortedIndex_Descending(_)
SortedIndex_Descending(ps) ==
  IF ps = {} THEN <<>>
  ELSE LET first == CHOOSE p \in ps : \A q \in ps : MonthKey(p) >= MonthKey(q)
       IN <<first>> \o SortedIndex_Descending(ps \ {first})

\* the keys of a groupby in index order
RECURSIVE SortedIndex(_)
SortedIndex(ps) ==
  IF ps = {} THEN <<>>
  ELSE LET first == CHOOSE p \in ps : \A q \in ps : MonthKey(p) <= MonthKey(q)
       IN <<first>> \o SortedIndex(ps \ {first})

\* report[column] = series: aligned on the report's index, NaN where the
\* series has no entry for a period
AssignAligned(index, series) ==
  [i \in 1..Len(index) |->
     IF index[i] \in DOMAIN series THEN Num(series[index[i]]) ELSE NaN]

\* the sums left with their sign
SeriesAbs_Signed(series) == series

\* Series.abs()
SeriesAbs(series) == [p \in DOMAIN series |-> Abs(series[p])]

\* the quotient without the test of the denominator
RatePerLiter_Unguarded(accrued, liters_with_bonus) ==
  Div(accrued, liters_with_bonus)

\* the row-wise lambda of report.apply(..., axis=1)
RatePerLiter(accrued, liters_with_bonus) ==
  IF liters_with_bonus # 0 THEN Div(accrued, liters_with_bonus) ELSE Zero

\* the period rows both variants compute, before the index is formatted:
\* a sequence of [period, bonus_accrued, liters_with_bonus, liters_total,
\* bonus_redeemed, rate_per_liter]
PeriodRows(d) ==
  LET is_positive(r) == r.bonus_plus.v > 0
      is_negative(r) == r.bonus_minus.v < 0
      positive_bonus == SelectSeq(d, is_positive)
      negative_bonus == SelectSeq(d, is_negative)
      index == SortedIndex(Periods(positive_bonus))
      accrued == GroupSum(positive_bonus, "bonus_plus")
      with_bonus == GroupSum(positive_bonus, "liters")
      total_liters == AssignAligned(index, GroupSum(d, "liters"))
      total_minus ==
        IF negative_bonus # <<>>
        THEN AssignAligned(index,
                           SeriesAbs(GroupSum(negative_bonus, "bonus_minus")))
        ELSE [i \in 1..Len(index) |-> Num(0)]
  IN [i \in 1..Len(index) |->
        [period |-> index[i],
         bonus_accrued |-> accrued[index[i]],
         liters_with_bonus |-> with_bonus[index[i]],
         liters_total |-> fillna(total_liters[i]).v,
         bonus_redeemed |-> fillna(total_minus[i]).v,
         rate_per_liter |->
           RatePerLiter(accrued[index[i]], with_bonus[index[i]])]]

\* src/report.py: the index is formatted and becomes the column Period
\* (reset_index, then rename of 'period'); no total row is appended
calculate_report(d) ==
  LET rows == PeriodRows(d)
  IN [i \in 1..Len(rows) |->
        [Period |-> strftime_BY(rows[i].period),
         bonus_accrued |-> rows[i].bonus_accrued,
         liters_with_bonus |-> rows[i].liters_with_bonus,
         liters_total |-> rows[i].liters_total,
         bonus_redeemed |-> rows[i].bonus_redeemed,
         rate_per_liter |-> rows[i].rate_per_liter]]

\* sum of one column of a report
RECURSIVE ColumnSum(_, _)
ColumnSum(rows, col) ==
  IF rows = <<>> THEN 0 ELSE Head(rows)[col] + ColumnSum(Tail(rows), col)

\* sum of the rates of a sequence of report rows, as a fraction
RECURSIVE RateSum(_)
RateSum(rows) ==
  IF rows = <<>> THEN Zero
  ELSE LET a == Head(rows).rate_per_liter
           b == RateSum(Tail(rows))
       IN Div(a.n * b.d + b.n * a.d, a.d * b.d)

\* a total row whose rate is summed like the other columns
TotalRow_SumOfRates(period_rows) ==
  [period |-> NaNLabel,
   Period |-> TotalLabel,
   bonus_accrued |-> ColumnSum(period_rows, "bonus_accrued"),
   liters_with_bonus |-> ColumnSum(period_rows, "liters_with_bonus"),
   liters_total |-> ColumnSum(period_rows, "liters_total"),
   bonus_redeemed |-> ColumnSum(period_rows, "bonus_redeemed"),
   rate_per_liter |-> RateSum(period_rows)]

\* the total row: each column summed over the period rows, the rate
\* recomputed from the two sums
TotalRow(period_rows) ==
  LET accrued_sum == ColumnSum(period_rows, "bonus_accrued")
      with_bonus_sum == ColumnSum(period_rows, "liters_with_bonus")
  IN [period |-> NaNLabel,
      Period |-> TotalLabel,
      bonus_accrued |-> accrued_sum,
      liters_with_bonus |-> with_bonus_sum,
      liters_total |-> ColumnSum(period_rows, "liters_total"),
      bonus_redeemed |-> ColumnSum(period_rows, "bonus_redeemed"),
      rate_per_liter |->
        IF with_bonus_sum # 0 THEN Div(accrued_sum, with_bonus_sum) ELSE Zero]

\* src/old/report_final.py: reset_index() names the label column "period"
\* (the index keeps its name; the rename of "index" matches nothing), so the
\* total row, built with the key Period, adds a column Period that is NaN in
\* the period rows, and its own "period" cell is NaN
calculate_report_old(d) ==
  LET rows == PeriodRows(d)
      period_rows ==
        [i \in 1..Len(rows) |->
           [period |-> strftime_BY(rows[i].period),
            Period |-> NaNLabel,
            bonus_accrued |-> rows[i].bonus_accrued,
            liters_with_bonus |-> rows[i].liters_with_bonus,
            liters_total |-> rows[i].liters_total,
            bonus_redeemed |-> rows[i].bonus_redeemed,
            rate_per_liter |-> rows[i].rate_per_liter]]
  IN period_rows \o <<TotalRow(period_rows)>>

(***************************************************************************)
(* get_sheet_name_from_data(df_report): the sheet label.                   *)
(* A text is a sequence of one-character strings, so that len(), split()   *)
(* and slices are computed.  A Cyrillic letter of the source is written as *)
(* one Latin letter, which keeps every length.                             *)
(***************************************************************************)
\* the spelling of the month names of MonthName
MonthChars ==
  <<<<"J", "a", "n", "u", "a", "r", "y">>,
    <<"F", "e", "b", "r", "u", "a", "r", "y">>,
    <<"M", "a", "r", "c", "h">>,
    <<"A", "p", "r", "i", "l">>,
    <<"M", "a", "y">>,
    <<"J", "u", "n", "e">>,
    <<"J", "u", "l", "y">>,
    <<"A", "u", "g", "u", "s", "t">>,
    <<"S", "e", "p", "t", "e", "m", "b", "e", "r">>,
    <<"O", "c", "t", "o", "b", "e", "r">>,
    <<"N", "o", "v", "e", "m", "b", "e", "r">>,
    <<"D", "e", "c", "e", "m", "b", "e", "r">>>>

DigitChar == <<"0", "1", "2", "3", "4", "5", "6", "7", "8", "9">>

\* str(n) of a natural number
RECURSIVE Digits(_)
Digits(n) ==
  IF n < 10 THEN <<DigitChar[n + 1]>>
  ELSE Digits(n \div 10) \o <<DigitChar[(n % 10) + 1]>>

\* the five Cyrillic letters of the total row's label
TotalChars == <<"I", "T", "O", "G", "O">>

\* a label cell as an f-string renders it: "Month YYYY", the total row's
\* word, or "nan" for an empty cell
format(l) ==
  CASE l.k = "nan" -> <<"n", "a", "n">>
    [] l = TotalLabel -> TotalChars
    [] OTHER ->
         LET m == CHOOSE i \in 1..12 : MonthName[i] = l.month
         IN MonthChars[m] \o <<" ">> \o Digits(l.year)

\* str.split(): the words between runs of blanks
RECURSIVE split(_)
split(s) ==
  LET t == lstrip(s)
      RECURSIVE WordLen(_)
      WordLen(u) == IF u = <<>> \/ Head(u) = " " THEN 0 ELSE 1 + WordLen(Tail(u))
  IN IF t = <<>> THEN <<>>
     ELSE <<SubSeq(t, 1, WordLen(t))>> \o split(SubSeq(t, WordLen(t) + 1, Len(t)))

\* s[:n]
Slice(s, n) == SubSeq(s, 1, IF Len(s) < n THEN Len(s) ELSE n)

\* Excel's limit on the length of a sheet name
SheetNameMax == 31

\* "Отчет" and "Отчет за "
DefaultName == <<"O", "t", "c", "e", "t">>
NamePrefix == DefaultName \o <<" ", "z", "a", " ">>

\* the label from the cells of the first and the last period: the full label,
\* or the abbreviation when the full label is too long.  The abbreviation
\* splits the cells: an empty (float) cell has no split() and a cell of one
\* word has no [1], and either raises.
sheet_name_of(first_period, last_period) ==
  LET first == format(first_period)
      last == format(last_period)
      full == NamePrefix \o first \o <<" ", "-", " ">> \o last
  IN IF Len(full) > SheetNameMax
     THEN IF \/ first_period.k = "nan" \/ last_period.k = "nan"
             \/ Len(split(first)) < 1 \/ Len(split(last)) < 2
          THEN [status |-> "raise", name |-> <<>>]
          ELSE LET first_month == split(first)[1]
                   last_month == split(last)[1]
                   last_year == split(last)[2]
               IN [status |-> "ok",
                   name |-> Slice(first_month, 3) \o <<"-">>
                              \o Slice(last_month, 3) \o <<" ">> \o last_year]
     ELSE [status |-> "ok", name |-> full]

\* a namer that also takes a report of one row for an empty one
get_sheet_name_from_data_OneRowDefault(rows) ==
  IF Len(rows) <= 1
  THEN [status |-> "ok", name |-> DefaultName]
  ELSE sheet_name_of(rows[1].Period, rows[Len(rows)].Period)

\* src/report.py: the report has the column "Период" (calculate_report
\* renames "period" to it), so the fallbacks to other columns are not taken
get_sheet_name_from_data(rows) ==
  IF Len(rows) = 0
  THEN [status |-> "ok", name |-> DefaultName]
  ELSE sheet_name_of(rows[1].Period, rows[Len(rows)].Period)

\* src/old/report_final.py: the last row is the total row, the last period
\* is read from the row before it
get_sheet_name_from_data_old(rows) ==
  IF Len(rows) <= 1
  THEN [status |-> "ok", name |-> DefaultName]
  ELSE sheet_name_of(rows[1].Period, rows[Len(rows) - 1].Period)

(***************************************************************************)
(* Inputs.                                                                 *)
(***************************************************************************)
Row(date, bonus_plus, bonus_minus, liters, reason, fuel_mark, azs_number) ==
  [date |-> date, bonus_plus |-> bonus_plus, bonus_minus |-> bonus_minus,
   liters |-> liters, reason |-> reason, fuel_mark |-> fuel_mark,
   azs_number |-> azs_number]

\* tables of 1..n rows over an alphabet of rows
Tables(alphabet, n) == UNION {[1..k -> alphabet] : k \in 1..n}

Reason == <<" ", "t", " ">>

\* rows of a concatenated sheet: dates in two months (a timestamp, and a
\* string written day first) or unparseable; an
\* accrual, a redemption, and a row whose amounts are strings or empty;
\* fuel marks and sites inside and outside the exclusion sets
RawRows ==
  {Row(dt, a[1], a[2], a[3], Reason, f[1], f[2]) :
     dt \in {Ts(2024, 1, 15), DateStr(3, 2, 2024), DateText},
     a \in {<<Num(10), Num(0), Num(5)>>, <<Num(0), Num(-2), Num(3)>>,
            <<Text, NaN, NumStr(3)>>},
     f \in {<<Num(14), Num(7)>>, <<Text, Num(1118)>>, <<Num(15), Text>>}}

\* rows for the filter alone: every kind of fuel_mark and azs_number cell
FilterRows ==
  {Row(Ts(2024, 1, 15), bp, Num(0), Num(5), Reason, fm, az) :
     bp \in {Num(5), Text},
     fm \in {Num(14), Num(15), NumStr(14), Text},
     az \in {Num(1118), Text}}

\* rows of a cleaned table: what validate_and_clean_data returns
CleanRows ==
  {[date |-> Ts(2024, m, 15), bonus_plus |-> Num(bp), bonus_minus |-> Num(bm),
    liters |-> Num(l), reason |-> strip(Reason), fuel_mark |-> Num(14),
    azs_number |-> Num(7), period |-> Ts(2024, m, 1)] :
     m \in {1, 2}, bp \in {-1, 0, 10}, bm \in {-2, 0}, l \in {0, 3, 5}}

Configs ==
  [ENABLE_FILTERING : BOOLEAN,
   EXCLUDE_FUEL_MARKS : {{}, {14}},
   EXCLUDE_AZS : {{}, {1118}}]

None == [status |-> "none"]

\* the files on disk and what main printed about them: whether the
\* destination existed when the run began (prior), the destination's content
\* (absent, the prior run's, this run's, or a broken partial file), the
\* backup's content, create_backup's message and the write's message
Disk(prior) ==
  [prior |-> prior, dst |-> IF prior THEN "prior" ELSE "absent",
   backup |-> "absent", backup_msg |-> "none", msg |-> "none"]

NoFiles == Disk(FALSE)

(***************************************************************************)
(* The run of src/report.py from the concatenated table on:                *)
(* load_and_process_data (apply_filters, validate_and_clean_data), then    *)
(* main's calculate_report.  An exception ends the run ("crashed").        *)
(***************************************************************************)
Init ==
  /\ pc = "concat"
  /\ config \in Configs
  /\ df \in Tables(RawRows, MaxRows)
  /\ filt = None /\ filt2 = None /\ clean = None
  /\ report = None /\ report_old = None
  /\ columns = AllColumns
  /\ files = <<>> /\ file_idx = 0 /\ all_data = <<>>
  /\ sheet_name = None /\ sheet_name_old = None
  /\ fs = NoFiles

ApplyFilters ==
  /\ pc = "concat"
  /\ filt' = apply_filters_columns(df, columns, config)
  /\ pc' = IF filt'.status = "raise" THEN "crashed" ELSE "filtered"
  /\ UNCHANGED <<config, df, filt2, clean, report, report_old>>
  /\ UNCHANGED <<columns, loadvars, outvars>>

\* a None from validate_and_clean_data makes main exit with status 1
ValidateAndClean ==
  /\ pc = "filtered"
  /\ clean' = validate_and_clean_columns(filt.df, columns)
  /\ pc' = CASE clean'.status = "raise" -> "crashed"
            [] clean'.status = "missing" -> "exit1"
            [] OTHER -> "cleaned"
  /\ UNCHANGED <<config, df, filt, filt2, report, report_old>>
  /\ UNCHANGED <<columns, loadvars, outvars>>

\* main: df_report = calculate_report(df_raw); an empty report ends the run
CalculateReport ==
  /\ pc = "cleaned"
  /\ report' = [status |-> "ok", rows |-> calculate_report(clean.df)]
  /\ pc' = IF Len(report'.rows) = 0 THEN "exit1" ELSE "reported"
  /\ UNCHANGED <<config, df, filt, filt2, clean, report_old>>
  /\ UNCHANGED <<columns, loadvars, outvars>>

Next == ApplyFilters \/ ValidateAndClean \/ CalculateReport

Spec == Init /\ [][Next]_vars

(***************************************************************************)
(* The aggregators of both variants on one cleaned table.                  *)
(***************************************************************************)
InitAgg ==
  /\ pc = "cleaned"
  /\ config \in {[ENABLE_FILTERING |-> FALSE, EXCLUDE_FUEL_MARKS |-> {},
                  EXCLUDE_AZS |-> {}]}
  /\ df = <<>>
  /\ filt = None /\ filt2 = None
  /\ clean \in {[status |-> "ok", df |-> t, missing_dates |-> 0] :
                  t \in Tables(CleanRows, MaxRows)}
  /\ report = None /\ report_old = None
  /\ columns = AllColumns
  /\ files = <<>> /\ file_idx = 0 /\ all_data = <<>>
  /\ sheet_name = None /\ sheet_name_old = None
  /\ fs = NoFiles

\* src/old/report_final.py main: df_report = calculate_report(df_raw)
CalculateReportOld ==
  /\ pc \in {"reported", "exit1"}
  /\ report_old = None
  /\ report_old' = [status |-> "ok", rows |-> calculate_report_old(clean.df)]
  /\ UNCHANGED <<pc, config, df, filt, filt2, clean, report>>
  /\ UNCHANGED <<columns, loadvars, outvars>>

NextAgg == CalculateReport \/ CalculateReportOld

SpecAgg == InitAgg /\ [][NextAgg]_vars

(***************************************************************************)
(* apply_filters applied to a table and again to its own output.           *)
(***************************************************************************)
InitFilter ==
  /\ pc = "concat"
  /\ config \in Configs
  /\ df \in Tables(FilterRows, MaxRows)
  /\ filt = None /\ filt2 = None /\ clean = None
  /\ report = None /\ report_old = None
  /\ columns = AllColumns
  /\ files = <<>> /\ file_idx = 0 /\ all_data = <<>>
  /\ sheet_name = None /\ sheet_name_old = None
  /\ fs = NoFiles

ApplyFiltersAgain ==
  /\ pc = "filtered"
  /\ filt2 = None
  /\ filt2' = apply_filters(filt.df, config)
  /\ UNCHANGED <<pc, config, df, filt, clean, report, report_old>>
  /\ UNCHANGED <<columns, loadvars, outvars>>

NextFilter == ApplyFilters \/ ApplyFiltersAgain

SpecFilter == InitFilter /\ [][NextFilter]_vars

(***************************************************************************)
(* The sheet namers of both variants applied to the reports of one cleaned *)
(* table, an empty report included.                                        *)
(***************************************************************************)
\* accruals and rows without accrual in four months: short and long month
\* names, two years
NameRows ==
  {[date |-> Ts(p[1], p[2], 15), bonus_plus |-> Num(bp), bonus_minus |-> Num(0),
    liters |-> Num(5), reason |-> strip(Reason), fuel_mark |-> Num(14),
    azs_number |-> Num(7), period |-> Ts(p[1], p[2], 1)] :
     p \in {<<2024, 1>>, <<2024, 5>>, <<2024, 6>>, <<2025, 12>>},
     bp \in {0, 10}}

InitName ==
  /\ pc = "cleaned"
  /\ config \in {[ENABLE_FILTERING |-> FALSE, EXCLUDE_FUEL_MARKS |-> {},
                  EXCLUDE_AZS |-> {}]}
  /\ df = <<>>
  /\ filt = None /\ filt2 = None
  /\ clean \in {[status |-> "ok", df |-> t, missing_dates |-> 0] :
                  t \in Tables(NameRows, MaxRows)}
  /\ report = None /\ report_old = None
  /\ columns = AllColumns
  /\ files = <<>> /\ file_idx = 0 /\ all_data = <<>>
  /\ sheet_name = None /\ sheet_name_old = None
  /\ fs = NoFiles

SheetNameOfReport ==
  /\ report # None
  /\ sheet_name = None
  /\ sheet_name' = get_sheet_name_from_data(report.rows)
  /\ UNCHANGED <<pc, config, df, filt, filt2, clean, report, report_old>>
  /\ UNCHANGED <<columns, loadvars, sheet_name_old, fs>>

SheetNameOfReportOld ==
  /\ report_old # None
  /\ sheet_name_old = None
  /\ sheet_name_old' = get_sheet_name_from_data_old(report_old.rows)
  /\ UNCHANGED <<pc, config, df, filt, filt2, clean, report, report_old>>
  /\ UNCHANGED <<columns, loadvars, sheet_name, fs>>

NextName ==
  \/ CalculateReport
  \/ CalculateReportOld
  \/ SheetNameOfReport
  \/ SheetNameOfReportOld

SpecName == InitName /\ [][NextName]_vars

(***************************************************************************)
(* The whole run of src/report.py: main from the search for source files   *)
(* to the final prompt.                                                    *)
(***************************************************************************)
MaxFiles == 2

\* rows of a source file: a dated accrual, the same with an unparseable
\* date, and an accrual of an excluded fuel mark
FileRows ==
  {Row(Ts(2024, 1, 15), Num(10), Num(0), Num(5), Reason, Num(15), Num(7)),
   Row(DateText, Num(10), Num(0), Num(5), Reason, Num(15), Num(7)),
   Row(DateStr(20, 5, 2024), Num(4), Num(-2), Num(3), Reason, Num(14), Num(7))}

\* a source file: read_excel raises on it (no such sheet, a mapped column
\* absent, a corrupt archive), or it holds a table, possibly without rows
SourceFiles ==
  {[ok |-> FALSE, rows |-> <<>>], [ok |-> TRUE, rows |-> <<>>]}
    \cup {[ok |-> TRUE, rows |-> <<r>>] : r \in FileRows}

\* the columns a loaded table has are the values of the configured
\* COLS_MAPPING: all seven, or a mapping that leaves one out
ColumnSets ==
  {AllColumns, AllColumns \ {"liters"}, AllColumns \ {"fuel_mark"}}

MainConfigs ==
  [ENABLE_FILTERING : BOOLEAN, EXCLUDE_FUEL_MARKS : {{14}},
   EXCLUDE_AZS : {{1118}}]

\* load_excel_file(file_path, config): the table, or None on any exception
load_excel_file(file) ==
  IF file.ok THEN [status |-> "ok", df |-> file.rows] ELSE None

\* a concatenation that keeps the first table only
concat_FirstOnly(tables) == IF tables = <<>> THEN <<>> ELSE Head(tables)

\* pd.concat(all_data, ignore_index=True)
RECURSIVE concat(_)
concat(tables) ==
  IF tables = <<>> THEN <<>> ELSE Head(tables) \o concat(Tail(tables))

\* create_backup(file_path): the destination is renamed to the backup name;
\* a rename that raises is reported and leaves both files as they were
create_backup(f) ==
  IF f.dst # "absent"
  THEN {[f EXCEPT !.dst = "absent", !.backup = f.dst, !.backup_msg = "created"],
        [f EXCEPT !.backup_msg = "failed"]}
  ELSE {f}

\* a writer that puts the backup back in place when the write fails
write_excel_Restoring(f) ==
  {[f EXCEPT !.dst = "new", !.msg = "saved"]}
    \cup {[f EXCEPT !.dst = IF f.backup = "absent" THEN d ELSE f.backup,
                    !.backup = "absent", !.msg = "error_hint"] :
            d \in {f.dst, "partial"}}

\* main's try block around pd.ExcelWriter(DST_FILE, mode='w'): the file is
\* written and the success is printed, or an exception is caught and printed
\* with the hint, the destination left as it was or as a partial file
write_excel(f) ==
  {[f EXCEPT !.dst = "new", !.msg = "saved"]}
    \cup {[f EXCEPT !.dst = d, !.msg = "error_hint"] : d \in {f.dst, "partial"}}

InitMain ==
  /\ pc = "start"
  /\ config \in MainConfigs
  /\ columns \in ColumnSets
  /\ files \in UNION {[1..n -> SourceFiles] : n \in 0..MaxFiles}
  /\ file_idx = 0 /\ all_data = <<>>
  /\ df = <<>>
  /\ filt = None /\ filt2 = None /\ clean = None
  /\ report = None /\ report_old = None
  /\ sheet_name = None /\ sheet_name_old = None
  /\ fs \in {Disk(prior) : prior \in BOOLEAN}

\* main: no source file found ends the run with status 1
FindSourceFiles ==
  /\ pc = "start"
  /\ pc' = IF Len(files) = 0 THEN "exit1" ELSE "loading"
  /\ file_idx' = 1
  /\ UNCHANGED <<config, df, filt, filt2, clean, report, report_old>>
  /\ UNCHANGED <<columns, files, all_data, outvars>>

\* load_and_process_data, one turn of the loop over the source files
LoadExcelFile ==
  /\ pc = "loading"
  /\ file_idx <= Len(files)
  /\ LET df_temp == load_excel_file(files[file_idx])
     IN all_data' = IF df_temp # None /\ Len(df_temp.df) # 0
                    THEN Append(all_data, df_temp.df)
                    ELSE all_data
  /\ file_idx' = file_idx + 1
  /\ UNCHANGED <<pc, config, df, filt, filt2, clean, report, report_old>>
  /\ UNCHANGED <<columns, files, outvars>>

\* load_and_process_data after the loop: nothing loaded returns (None, None)
\* and main exits with status 1; otherwise the tables are concatenated
Concat ==
  /\ pc = "loading"
  /\ file_idx > Len(files)
  /\ IF all_data = <<>>
     THEN pc' = "exit1" /\ df' = df
     ELSE pc' = "concat" /\ df' = concat(all_data)
  /\ UNCHANGED <<config, filt, filt2, clean, report, report_old>>
  /\ UNCHANGED <<columns, loadvars, outvars>>

\* main: sheet_name = get_sheet_name_from_data(df_report)
GetSheetName ==
  /\ pc = "reported"
  /\ sheet_name' = get_sheet_name_from_data(report.rows)
  /\ pc' = IF sheet_name'.status = "raise" THEN "crashed" ELSE "named"
  /\ UNCHANGED <<config, df, filt, filt2, clean, report, report_old>>
  /\ UNCHANGED <<columns, loadvars, sheet_name_old, fs>>

\* main: if dst_path.exists(): create_backup(DST_FILE)
Backup ==
  /\ pc = "named"
  /\ fs' \in create_backup(fs)
  /\ pc' = "backed"
  /\ UNCHANGED <<config, df, filt, filt2, clean, report, report_old>>
  /\ UNCHANGED <<columns, loadvars, sheet_name, sheet_name_old>>

\* main: the try block that saves the report
Write ==
  /\ pc = "backed"
  /\ fs' \in write_excel(fs)
  /\ pc' = IF fs'.msg = "saved" THEN "written" ELSE "write_failed"
  /\ UNCHANGED <<config, df, filt, filt2, clean, report, report_old>>
  /\ UNCHANGED <<columns, loadvars, sheet_name, sheet_name_old>>

\* main: the final prompt, after which the process ends
Finish ==
  /\ pc \in {"written", "write_failed"}
  /\ pc' = "end"
  /\ UNCHANGED <<config, df, filt, filt2, clean, report, report_old>>
  /\ UNCHANGED <<columns, loadvars, outvars>>

NextMain ==
  \/ FindSourceFiles
  \/ LoadExcelFile
  \/ Concat
  \/ ApplyFilters
  \/ ValidateAndClean
  \/ CalculateReport
  \/ GetSheetName
  \/ Backup
  \/ Write
  \/ Finish

SpecMain == InitMain /\ [][NextMain]_vars

(***************************************************************************)
(* Properties of the aggregator (checked under SpecAgg).                   *)
(* What a report should hold is stated over the cleaned table directly,    *)
(* by sums over sets of row numbers.                                       *)
(***************************************************************************)
RECURSIVE SumOver(_, _, _)
SumOver(rows, col, I) ==
  IF I = {} THEN 0
  ELSE LET i == CHOOSE j \in I : TRUE
       IN rows[i][col].v + SumOver(rows, col, I \ {i})

RECURSIVE SumField(_, _, _)
SumField(rows, col, I) ==
  IF I = {} THEN 0
  ELSE LET i == CHOOSE j \in I : TRUE
       IN rows[i][col] + SumField(rows, col, I \ {i})

AllRows(t) == 1..Len(t)
InPeriod(t, p) == {i \in AllRows(t) : t[i].date.y = p.y /\ t[i].date.m = p.m}
Accruals(t, p) == {i \in InPeriod(t, p) : t[i].bonus_plus.v > 0}
Redemptions(t, p) == {i \in InPeriod(t, p) : t[i].bonus_minus.v < 0}
MonthsOf(t) == {[y |-> t[i].date.y, m |-> t[i].date.m] : i \in AllRows(t)}

\* the month a label names
MonthOfLabel(l) ==
  [y |-> l.year, m |-> CHOOSE m \in 1..12 : MonthName[m] = l.month]
LabelKey(l) == l.year * 12 + (CHOOSE m \in 1..12 : MonthName[m] = l.month)

\* the period rows of each variant's output, and the column that labels them
NewDone == report # None
OldDone == report_old # None
NewPeriodRows == report.rows
OldPeriodRows == SubSeq(report_old.rows, 1, Len(report_old.rows) - 1)
OldTotalRow == report_old.rows[Len(report_old.rows)]

\* C1 (as claimed, for a report main goes on to write): the liters_total of
\* the period rows add up to the liters of every cleaned row, in both variants.
C1_TotalLitersConserved ==
  /\ NewDone /\ pc = "reported" =>
       SumField(NewPeriodRows, "liters_total", AllRows(NewPeriodRows))
         = SumOver(clean.df, "liters", AllRows(clean.df))
  /\ OldDone =>
       SumField(OldPeriodRows, "liters_total", AllRows(OldPeriodRows))
         = SumOver(clean.df, "liters", AllRows(clean.df))

\* C2 (as claimed, for a report main goes on to write): each month of the
\* cleaned table has exactly one period row, with or without an accrual in that
\* month, and the row's liters_total is the liters of all the month's records.
C2_OneRowPerPeriod ==
  NewDone /\ pc = "reported" =>
    \A p \in MonthsOf(clean.df) :
      /\ Cardinality({i \in AllRows(NewPeriodRows) :
                        MonthOfLabel(NewPeriodRows[i].Period) = p}) = 1
      /\ \A i \in AllRows(NewPeriodRows) :
           MonthOfLabel(NewPeriodRows[i].Period) = p =>
             NewPeriodRows[i].liters_total
               = SumOver(clean.df, "liters", InPeriod(clean.df, p))

\* what a period row labelled l must hold, given the cleaned table t
RowIsRollup(r, l, t) ==
  LET p == MonthOfLabel(l)
  IN /\ r.bonus_accrued = SumOver(t, "bonus_plus", Accruals(t, p))
     /\ r.liters_with_bonus = SumOver(t, "liters", Accruals(t, p))
     /\ r.liters_total = SumOver(t, "liters", InPeriod(t, p))
     /\ r.bonus_redeemed = Abs(SumOver(t, "bonus_minus", Redemptions(t, p)))
     /\ r.liters_with_bonus # 0 =>
          /\ r.rate_per_liter.d > 0
          /\ r.rate_per_liter.n * r.liters_with_bonus
               = r.bonus_accrued * r.rate_per_liter.d

\* the scenario of the specification: two January rows
ScenarioTable ==
  <<[date |-> Ts(2024, 1, 15), bonus_plus |-> Num(10), bonus_minus |-> Num(0),
     liters |-> Num(5), reason |-> strip(Reason), fuel_mark |-> Num(14),
     azs_number |-> Num(7), period |-> Ts(2024, 1, 1)],
    [date |-> Ts(2024, 1, 15), bonus_plus |-> Num(0), bonus_minus |-> Num(-2),
     liters |-> Num(3), reason |-> strip(Reason), fuel_mark |-> Num(14),
     azs_number |-> Num(7), period |-> Ts(2024, 1, 1)]>>

ScenarioRow(r) ==
  /\ r.bonus_accrued = 10 /\ r.liters_with_bonus = 5 /\ r.liters_total = 8
  /\ r.bonus_redeemed = 2 /\ r.rate_per_liter = [n |-> 2, d |-> 1]

\* C3: every period row holds the rollups of its month: accruals and their
\* liters over the records with bonus_plus > 0, all liters of the month, the
\* absolute sum of the redemptions, and the quotient as rate; the two January
\* rows of the scenario give 10, 5, 8, 2 and 2.0.
C3_PeriodRowValues ==
  /\ NewDone =>
       /\ \A i \in AllRows(NewPeriodRows) :
            RowIsRollup(NewPeriodRows[i], NewPeriodRows[i].Period, clean.df)
       /\ clean.df = ScenarioTable =>
            Len(NewPeriodRows) = 1 /\ ScenarioRow(NewPeriodRows[1])
  /\ OldDone =>
       /\ \A i \in AllRows(OldPeriodRows) :
            RowIsRollup(OldPeriodRows[i], OldPeriodRows[i].period, clean.df)
       /\ clean.df = ScenarioTable =>
            Len(OldPeriodRows) = 1 /\ ScenarioRow(OldPeriodRows[1])

C3_Witness ==
  /\ NewDone /\ OldDone /\ clean.df = ScenarioTable
  /\ Len(NewPeriodRows) = 1 /\ Len(OldPeriodRows) = 1

IsTotalRow(r) == r.Period = TotalLabel

\* labels in strictly ascending chronological order
Chronological(labels) ==
  \A i, j \in 1..Len(labels) : i < j => LabelKey(labels[i]) < LabelKey(labels[j])

NewLabels == [i \in AllRows(NewPeriodRows) |-> NewPeriodRows[i].Period]
OldLabels == [i \in AllRows(OldPeriodRows) |-> OldPeriodRows[i].period]

\* C4 (as claimed): in each variant the period rows are in chronological order
\* and are followed by exactly one grand-total row, the last row of the output.
C4_TotalRowLastInEachVariant ==
  /\ NewDone /\ pc = "reported" =>
       /\ IsTotalRow(report.rows[Len(report.rows)])
       /\ Cardinality({i \in AllRows(report.rows) :
                         IsTotalRow(report.rows[i])}) = 1
       /\ Chronological([i \in 1..(Len(report.rows) - 1) |->
                           report.rows[i].Period])
  /\ OldDone =>
       /\ IsTotalRow(OldTotalRow)
       /\ Cardinality({i \in AllRows(report_old.rows) :
                         IsTotalRow(report_old.rows[i])}) = 1
       /\ Chronological(OldLabels)

\* C4 (amended): in each variant the period rows are in chronological order of
\* their period; the output of src/old/report_final.py ends with exactly one
\* grand-total row, and the output of src/report.py has period rows only.
C4_ChronologicalTotalOnlyInOld ==
  /\ NewDone =>
       /\ Chronological(NewLabels)
       /\ \A i \in AllRows(report.rows) : ~IsTotalRow(report.rows[i])
  /\ OldDone =>
       /\ Len(report_old.rows) >= 1
       /\ IsTotalRow(OldTotalRow)
       /\ \A i \in AllRows(OldPeriodRows) : ~IsTotalRow(OldPeriodRows[i])
       /\ Chronological(OldLabels)

\* two period rows whose records come in the table latest month first
C4_Witness ==
  /\ NewDone /\ OldDone
  /\ Len(NewPeriodRows) = 2 /\ Len(report_old.rows) = 3
  /\ Len(clean.df) = 2
  /\ MonthKey(clean.df[1].period) > MonthKey(clean.df[2].period)

\* C5: the total row's rate_per_liter is the sum of bonus_accrued over the sum
\* of liters_with_bonus of the period rows (0 for a zero denominator), not the
\* sum of the period rates; its other numeric columns are the column sums.
C5_TotalRowRate ==
  OldDone =>
    LET I == AllRows(OldPeriodRows)
        accrued == SumField(OldPeriodRows, "bonus_accrued", I)
        with_bonus == SumField(OldPeriodRows, "liters_with_bonus", I)
        t == OldTotalRow
    IN /\ t.bonus_accrued = accrued
       /\ t.liters_with_bonus = with_bonus
       /\ t.liters_total = SumField(OldPeriodRows, "liters_total", I)
       /\ t.bonus_redeemed = SumField(OldPeriodRows, "bonus_redeemed", I)
       /\ t.rate_per_liter.d > 0
       /\ with_bonus # 0 =>
            t.rate_per_liter.n * with_bonus = accrued * t.rate_per_liter.d
       /\ with_bonus = 0 => t.rate_per_liter = Zero

\* a total row whose rate differs from the sum of the period rates
C5_Witness ==
  /\ OldDone
  /\ Len(OldPeriodRows) = 2
  /\ OldTotalRow.liters_with_bonus # 0
  /\ OldTotalRow.rate_per_liter # RateSum(OldPeriodRows)

\* C6: a period row whose liters_with_bonus is 0 has rate_per_liter exactly 0,
\* and no rate is the outcome of a division by zero.
C6_ZeroDenominatorRate ==
  /\ NewDone =>
       \A i \in AllRows(NewPeriodRows) :
         /\ NewPeriodRows[i].rate_per_liter.d # 0
         /\ NewPeriodRows[i].liters_with_bonus = 0 =>
              NewPeriodRows[i].rate_per_liter = Zero
  /\ OldDone =>
       \A i \in AllRows(report_old.rows) :
         /\ report_old.rows[i].rate_per_liter.d # 0
         /\ report_old.rows[i].liters_with_bonus = 0 =>
              report_old.rows[i].rate_per_liter = Zero

\* a period whose accruals all have liters = 0
C6_Witness ==
  /\ NewDone /\ OldDone
  /\ \E i \in AllRows(NewPeriodRows) :
       /\ NewPeriodRows[i].liters_with_bonus = 0
       /\ NewPeriodRows[i].bonus_accrued > 0

\* C7: bonus_redeemed is never negative in any row; it is 0 in every row when
\* no cleaned record has bonus_minus < 0, and 0 for a period without one.
C7_RedeemedNonNegative ==
  LET t == clean.df
      none_negative == \A i \in AllRows(t) : t[i].bonus_minus.v >= 0
  IN /\ NewDone =>
          \A i \in AllRows(NewPeriodRows) :
            LET r == NewPeriodRows[i]
            IN /\ r.bonus_redeemed >= 0
               /\ none_negative => r.bonus_redeemed = 0
               /\ Redemptions(t, MonthOfLabel(r.Period)) = {} =>
                    r.bonus_redeemed = 0
     /\ OldDone =>
          /\ \A i \in AllRows(report_old.rows) :
               /\ report_old.rows[i].bonus_redeemed >= 0
               /\ none_negative => report_old.rows[i].bonus_redeemed = 0
          /\ \A i \in AllRows(OldPeriodRows) :
               Redemptions(t, MonthOfLabel(OldPeriodRows[i].period)) = {} =>
                 OldPeriodRows[i].bonus_redeemed = 0

\* one period with a redemption, reported positive, and one without
C7_Witness ==
  /\ NewDone /\ OldDone
  /\ \E i, j \in AllRows(NewPeriodRows) :
       /\ NewPeriodRows[i].bonus_redeemed > 0
       /\ NewPeriodRows[j].bonus_redeemed = 0
  /\ OldTotalRow.bonus_redeemed > 0

(***************************************************************************)
(* Properties of the filter (checked under SpecFilter).                    *)
(***************************************************************************)
Enabled == config.ENABLE_FILTERING

ZeroStats(st) ==
  st.filtered_rows = 0 /\ st.filtered_fuel = 0 /\ st.filtered_azs = 0

\* C8 (as claimed): apply_filters applied to its own output, with the same
\* exclusion sets, returns the same rows and reports no row removed.
C8_FilterIdempotent ==
  Enabled /\ pc = "filtered" /\ filt2 # None =>
    /\ filt2.status = "ok"
    /\ filt2.df = filt.df
    /\ ZeroStats(filt2.stats)

\* the second call either returns the same rows or is given an empty table
C8_IdempotentUnlessEmpty ==
  Enabled /\ pc = "filtered" /\ filt2 # None =>
    IF Len(filt.df) = 0 THEN filt2.status = "raise"
    ELSE /\ filt2.status = "ok"
         /\ filt2.df = filt.df
         /\ ZeroStats(filt2.stats)

\* a cell that is numerically equal to a code of the set
NumericallyIn(c, codes) == c.k \in {"num", "numstr"} /\ c.v \in codes

FuelMatch(r) == NumericallyIn(r.fuel_mark, config.EXCLUDE_FUEL_MARKS)
AzsMatch(r) == NumericallyIn(r.azs_number, config.EXCLUDE_AZS)
Survives(r) == ~FuelMatch(r) /\ ~AzsMatch(r)

\* a row without the two columns the filter coerces
Payload(r) == <<r.date, r.bonus_plus, r.bonus_minus, r.liters, r.reason>>
Payloads(rows) == [i \in 1..Len(rows) |-> Payload(rows[i])]

StringAmount(r) == IsStr(r.bonus_plus) \/ IsStr(r.liters)

RunOutcome(t, cfg) ==
  LET f == apply_filters(t, cfg)
      c == IF f.status = "ok" THEN validate_and_clean_data(f.df) ELSE None
      r == IF c.status = "ok" THEN calculate_report(c.df) ELSE <<>>
  IN [filtered |-> f.status, clean |-> c, report |-> r]

FilteringOff ==
  [ENABLE_FILTERING |-> FALSE, EXCLUDE_FUEL_MARKS |-> {}, EXCLUDE_AZS |-> {}]
FilteringOnEmpty ==
  [ENABLE_FILTERING |-> TRUE, EXCLUDE_FUEL_MARKS |-> {}, EXCLUDE_AZS |-> {}]

RunEnded == pc \in {"reported", "exit1", "crashed"}

\* C9: a run with filtering disabled ends with the same cleaned table and the
\* same report rows as a run on the same table with filtering enabled and both
\* exclusion sets empty, and the other way round.
C9_DisabledEqualsEmptySets ==
  /\ RunEnded /\ ~Enabled =>
       LET o == RunOutcome(df, FilteringOnEmpty)
       IN /\ filt.status = o.filtered
          /\ clean = o.clean
          /\ (report # None => report.rows = o.report)
          /\ (report = None => o.clean.status # "ok")
  /\ RunEnded /\ config = FilteringOnEmpty =>
       LET o == RunOutcome(df, [config EXCEPT !.ENABLE_FILTERING = FALSE])
       IN /\ filt.status = o.filtered
          /\ clean = o.clean
          /\ (report # None => report.rows = o.report)
          /\ (report = None => o.clean.status # "ok")

\* a run without filtering that drops a row for its date and reports a period
C9_Witness ==
  /\ pc = "reported" /\ ~Enabled
  /\ clean.missing_dates = 1
  /\ Len(report.rows) = 1
  /\ \E i \in 1..Len(df) : df[i].fuel_mark = Text

(***************************************************************************)
(* Properties of validate_and_clean_data (checked under Spec).             *)
(***************************************************************************)
\* what a date cell of the input tables means when read day first:
\* "03.02.2024" is the 3rd of February
DayFirst(c) ==
  CASE c.k = "ts" -> c
    [] c = DateStr(3, 2, 2024) -> Ts(2024, 2, 3)
    [] OTHER -> NaT

Dated(r) == DayFirst(r.date) # NaT
Undated(r) == ~Dated(r)

\* an amount as the cleaned table must hold it: the number, 0 for a cell
\* that is no number
Amount(c) == IF c.k \in {"num", "numstr"} THEN Num(c.v) ELSE Num(0)

\* validate_and_clean_data has been called on the filtered table
Validated == clean # None

\* the returned table is the dated rows of the filtered table, in order, with
\* parsed dates, coerced amounts and the first day of the month as period
CleanedAsClaimed ==
  LET kept == SelectSeq(filt.df, Dated)
  IN /\ clean.status = "ok"
     /\ Len(clean.df) = Len(kept)
     /\ clean.missing_dates = Len(filt.df) - Len(clean.df)
     /\ clean.missing_dates = Len(SelectSeq(filt.df, Undated))
     /\ \A i \in 1..Len(kept) :
          /\ clean.df[i].date = DayFirst(kept[i].date)
          /\ clean.df[i].date.k = "ts"
          /\ clean.df[i].period = Ts(clean.df[i].date.y, clean.df[i].date.m, 1)
          /\ clean.df[i].bonus_plus = Amount(kept[i].bonus_plus)
          /\ clean.df[i].bonus_minus = Amount(kept[i].bonus_minus)
          /\ clean.df[i].liters = Amount(kept[i].liters)

\* C11: for a table with all required columns validate_and_clean_data returns
\* exactly the rows whose date parses day first, keeps rows with non-numeric
\* amounts with 0 in that field, reports as missing dates the number of rows
\* it dropped, and every returned row has a valid date and the first day of
\* that date's month as period.
C11_ReturnsDatedRows == Validated => CleanedAsClaimed

\* the same for the tables that hold at least one dated row
C11_HoldsWhenARowIsDated ==
  Validated /\ SelectSeq(filt.df, Dated) # <<>> => CleanedAsClaimed

\* C15: row-level defects never abort the run: whatever the unparseable dates
\* and non-numeric amounts of a table with the required columns,
\* validate_and_clean_data returns a cleaned table; it neither raises nor
\* returns None.
C15_CleaningCompletes == Validated => clean.status = "ok"

\* the call fails exactly on the tables without a dated row
C15_FailsWithoutDatedRow ==
  Validated => (clean.status = "raise" <=> SelectSeq(filt.df, Dated) = <<>>)

(***************************************************************************)
(* Properties of the order of the rules and of the stages.                 *)
(***************************************************************************)
BothMatch(r) == FuelMatch(r) /\ AzsMatch(r)
AzsOnly(r) == ~FuelMatch(r) /\ AzsMatch(r)
Excluded(r) == ~Survives(r)

\* C18 (checked under SpecFilter): with filtering enabled the fuel-mark rule
\* runs first and the site rule sees only the rows it left: a row matching
\* both rules is counted in filtered_fuel and not in filtered_azs, and on
\* return filtered_rows = filtered_fuel + filtered_azs = initial_count minus
\* the number of rows returned.
C18_FuelRuleBeforeSiteRule ==
  Enabled /\ pc = "filtered" =>
    /\ filt.stats.filtered_fuel = Len(SelectSeq(df, FuelMatch))
    /\ filt.stats.filtered_azs = Len(SelectSeq(df, AzsOnly))
    /\ filt.stats.filtered_rows
         = filt.stats.filtered_fuel + filt.stats.filtered_azs
    /\ filt.stats.filtered_rows = filt.stats.initial_count - Len(filt.df)
    /\ filt.stats.initial_count = Len(df)

\* a table with a row matching both rules and a row matching the site rule
\* only: one is counted for each rule
C18_Witness ==
  /\ Enabled /\ pc = "filtered"
  /\ Len(df) = 2
  /\ BothMatch(df[1]) /\ AzsOnly(df[2])
  /\ filt.stats.filtered_fuel = 1 /\ filt.stats.filtered_azs = 1
  /\ filt.stats.filtered_rows = 2 /\ Len(filt.df) = 0

UndatedSurvivor(r) == Survives(r) /\ Undated(r)
UndatedExcluded(r) == Excluded(r) /\ Undated(r)

\* C19 (checked under Spec): filtering comes strictly before cleaning.  The
\* validator runs only on what apply_filters returned; with filtering enabled
\* a row that matches an exclusion set and has an unparseable date is counted
\* in the filter statistics, is not in the table the validator is given and
\* is not in the validator's count of missing dates, which counts the
\* undated rows among the survivors only.
C19_FilterBeforeCleaning ==
  /\ Validated => filt # None /\ filt.status = "ok" /\ pc # "concat"
  /\ filt # None /\ filt.status = "raise" => clean = None
  /\ Enabled /\ Validated =>
       /\ filt.stats.filtered_rows = Len(SelectSeq(df, Excluded))
       /\ Payloads(filt.df) = Payloads(SelectSeq(df, Survives))
       /\ clean.missing_dates = Len(SelectSeq(df, UndatedSurvivor))

\* an excluded row with an unparseable date next to a dated survivor: one
\* row filtered, no date missing
C19_Witness ==
  /\ Enabled /\ Validated /\ clean.status = "ok"
  /\ Len(df) = 2
  /\ \E i \in 1..Len(df) : UndatedExcluded(df[i])
  /\ filt.stats.filtered_rows = 1
  /\ clean.missing_dates = 0 /\ Len(clean.df) = 1

(***************************************************************************)
(* Properties of the sheet namers (checked under SpecName).                *)
(***************************************************************************)
NewNamed == sheet_name # None
OldNamed == sheet_name_old # None

\* a period label as it is spelled: "January 2024"
Spelled(l) ==
  LET m == CHOOSE i \in 1..12 : MonthName[i] = l.month
  IN MonthChars[m] \o <<" ">> \o Digits(l.year)

\* "Jan-Dec 2025"
Abbreviated(first, last) ==
  SubSeq(Spelled(first), 1, 3) \o <<"-">> \o SubSeq(Spelled(last), 1, 3)
    \o <<" ">> \o Digits(last.year)

\* the name n is the label of the periods first .. last: the full label,
\* the abbreviation when the full label has more than 31 characters, never
\* more than 31 characters
NameIsLabelOf(n, first, last) ==
  LET full == NamePrefix \o Spelled(first) \o <<" ", "-", " ">> \o Spelled(last)
  IN /\ n.status = "ok"
     /\ Len(n.name) <= 31
     /\ n.name = IF Len(full) > 31 THEN Abbreviated(first, last) ELSE full
     /\ first = strftime_BY(Ts(2024, 1, 1)) /\ last = strftime_BY(Ts(2025, 12, 1))
          => n.name = <<"J", "a", "n", "-", "D", "e", "c", " ", "2", "0", "2", "5">>

\* the claim for the reports of src/report.py
C12_HoldsInReport ==
  NewNamed /\ Len(NewPeriodRows) >= 2 =>
    NameIsLabelOf(sheet_name, NewLabels[1], NewLabels[Len(NewPeriodRows)])

\* C12: get_sheet_name_from_data builds the label from the first and the
\* last period row, never from the total row; a full label of more than 31
\* characters is replaced by "<Mon1>-<Mon2> <last year>", so no label is
\* longer than 31 characters, and January 2024 .. December 2025 gives
\* "Jan-Dec 2025".  Stated for both variants.
C12_LabelFromFirstAndLastPeriod ==
  /\ C12_HoldsInReport
  /\ OldNamed /\ Len(OldPeriodRows) >= 2 =>
       NameIsLabelOf(sheet_name_old, OldLabels[1], OldLabels[Len(OldPeriodRows)])

\* what the older variant returns for every report with a period row
C12_OldNameIsNan ==
  OldNamed /\ Len(OldPeriodRows) >= 1 =>
    sheet_name_old.name = NamePrefix \o <<"n", "a", "n", " ", "-", " ", "n", "a", "n">>

\* C13 as stated: with zero period rows or exactly one period row the namer
\* returns the fixed default label.
C13_DefaultForAtMostOneRow ==
  /\ NewNamed /\ Len(NewPeriodRows) <= 1 => sheet_name.name = DefaultName
  /\ OldNamed /\ Len(OldPeriodRows) <= 1 => sheet_name_old.name = DefaultName

\* C13 amended: the namer returns the fixed default label exactly when the
\* report holds no period row (an empty report in src/report.py, the total
\* row alone in src/old/report_final.py); with exactly one period row it
\* builds a label, in src/report.py with that row's period as the first and
\* the last one.
C13_DefaultOnlyWithoutPeriodRows ==
  /\ NewNamed =>
       /\ sheet_name.status = "ok"
       /\ sheet_name.name = DefaultName <=> Len(NewPeriodRows) = 0
       /\ Len(NewPeriodRows) = 1 =>
            NameIsLabelOf(sheet_name, NewLabels[1], NewLabels[1])
  /\ OldNamed =>
       /\ sheet_name_old.status = "ok"
       /\ sheet_name_old.name = DefaultName <=> Len(OldPeriodRows) = 0

\* a report of one period row named in both variants, in neither with the
\* default label
C13_Witness ==
  /\ NewNamed /\ OldNamed
  /\ Len(NewPeriodRows) = 1 /\ Len(OldPeriodRows) = 1
  /\ sheet_name.name # DefaultName /\ sheet_name_old.name # DefaultName
  /\ sheet_name.name = Abbreviated(NewLabels[1], NewLabels[1])

(***************************************************************************)
(* Properties of the whole run (checked under SpecMain).                   *)
(***************************************************************************)
\* the loop over the source files is over
LoaderDone == pc \notin {"start", "loading"}

\* the run ended with status 1 before anything was filtered
LoaderAborted == pc = "exit1" /\ filt = None

Loads(file) == file.ok
HasRows(file) == file.ok /\ file.rows # <<>>

\* the rows of the files, in the order of the files
RECURSIVE RowsOf(_)
RowsOf(fl) == IF fl = <<>> THEN <<>> ELSE Head(fl).rows \o RowsOf(Tail(fl))

\* C14 as stated: a file that fails is skipped and the others are still
\* read; the loader aborts only when no file is found or every file fails
\* to load, so if one file loads the run goes on to filtering with the rows
\* loaded.
C14_AbortsOnlyWhenEveryFileFails ==
  LoaderDone =>
    /\ LoaderAborted <=> SelectSeq(files, Loads) = <<>>
    /\ ~LoaderAborted => df = RowsOf(SelectSeq(files, Loads))

\* C14 amended: a file that fails, and a file that loads without rows, is
\* skipped and the others are still read; the loader aborts exactly when no
\* file yields a row (none found, or each fails or is empty); otherwise the
\* run goes on to filtering with the rows of all files that have rows, in
\* the order of the files.
C14_AbortsOnlyWithoutRows ==
  /\ pc = "loading" =>
       LET read == SubSeq(files, 1, file_idx - 1)
           with_rows == SelectSeq(read, HasRows)
       IN all_data = [i \in 1..Len(with_rows) |-> with_rows[i].rows]
  /\ LoaderDone =>
       /\ LoaderAborted <=> SelectSeq(files, HasRows) = <<>>
       /\ ~LoaderAborted =>
            /\ df = RowsOf(SelectSeq(files, HasRows))
            /\ pc = "concat" \/ filt # None

\* a file that fails before a file with a row: the run filtered that row
C14_Witness ==
  /\ Len(files) = 2
  /\ ~files[1].ok /\ HasRows(files[2])
  /\ filt # None /\ filt.status = "ok"
  /\ df = files[2].rows

\* a canonical column the validator requires is not among the columns
RequiredColumnAbsent ==
  ~({"date", "bonus_plus", "bonus_minus", "liters", "reason"} \subseteq columns)

\* C16: when a required column is absent from the table apply_filters
\* returned, validate_and_clean_data returns None and main ends the run
\* with status 1; no report is computed and the destination is neither
\* renamed nor written, in that step or before it.
C16_MissingColumnExits ==
  RequiredColumnAbsent =>
    /\ fs = Disk(fs.prior)
    /\ report = None /\ sheet_name = None
    /\ pc \in {"start", "loading", "concat", "filtered", "crashed", "exit1"}
    /\ Validated => clean.status = "missing" /\ pc = "exit1"
    /\ pc = "crashed" => clean = None

\* a run on a table without the liters column, stopped by the validator
\* with the prior destination file in place
C16_Witness ==
  /\ "liters" \notin columns
  /\ Validated /\ clean.status = "missing" /\ pc = "exit1"
  /\ Len(filt.df) > 0
  /\ fs.prior /\ fs.dst = "prior" /\ fs.backup = "absent"

WriteFailed == fs.msg = "error_hint"

\* C17: when the destination exists the backup step comes before the write
\* attempt; when the write fails the error is printed with the hint, the
\* run ends without the destination holding this run's report, and the
\* backup made stays as it was through the failed write and the end of the
\* run.
C17_BackupBeforeWrite ==
  /\ pc = "named" => fs = Disk(fs.prior)
  /\ pc = "backed" => fs.msg = "none" /\ (fs.prior <=> fs.backup_msg # "none")
  /\ fs.msg # "none" =>
       /\ pc \in {"written", "write_failed", "end"}
       /\ fs.prior <=> fs.backup_msg # "none"
  /\ fs.backup_msg = "created" => fs.backup = "prior"
  /\ fs.backup_msg # "created" => fs.backup = "absent"
  /\ pc = "write_failed" => WriteFailed
  /\ WriteFailed => fs.dst # "new"
  /\ pc = "written" => fs.msg = "saved" /\ fs.dst = "new"

\* a run that renamed the prior destination, failed to write and ended:
\* the backup is there, the destination is a partial file
C17_Witness ==
  /\ pc = "end" /\ WriteFailed
  /\ fs.prior /\ fs.backup_msg = "created" /\ fs.backup = "prior"
  /\ fs.dst = "partial"

====
